---- MODULE Spec2Model ----
(***************************************************************************)
(* Two resumable batch pipelines of the repository:                        *)
(*   - fetch_hourly_weather.main: per-city weather archive fetch with a    *)
(*     processed-set filter and a merge-and-persist flush;                  *)
(*   - russian_cities_with_coords.fetch_and_geocode_russian_cities: per    *)
(*     city geocoding through an in-memory cache backed by a JSON file.     *)
(* Each pipeline has its own specification (SpecWeather, SpecGeo); the     *)
(* variables of the other pipeline stay at their initial values.           *)
(***************************************************************************)
EXTENDS Integers, Sequences, FiniteSets, TLC

VARIABLES
    \* ---- fetch_hourly_weather.py ----
    input,            \* rows of the input CSV (--input), fixed over the runs
    steps,            \* number of time steps in the --start/--end range
    outFile,          \* the output CSV (--output) on disk
    wpc,              \* position of main: "idle", "loop", "done", "crashed"
    processed_cities, \* set built at lines 65-68
    data,             \* filtered source rows, line 72
    i,                \* index of the row the for loop is at
    all_results,      \* list of per-city frames, line 79
    runs,             \* number of runs started so far
    startFile,        \* history: outFile when the current run started
    lookups,          \* history: rows for which weather_api was called in this run
    failAt,           \* history: index in data of the row whose lookup raised (0: none)
    prevStartFile,    \* history: startFile of the previous run
    prevData,         \* history: data of the previous run
    prevFailAt,       \* history: failAt of the previous run
    inputColumns,     \* header of the input CSV, fixed over the runs
    writes,           \* history: calls of final_df.to_csv in this run
    slept,            \* history: indices in data after whose lookup time.sleep ran
    saved,            \* history: source rows whose frames were written, in order
    firstFile,        \* history: outFile before the first run
    \* ---- russian_cities_with_coords.py ----
    cacheFile,        \* geo_cache.json on disk
    coordsFile,       \* cities_with_coordinates.csv on disk
    df,               \* rows of russian_cities.csv read at line 119
    cache,            \* the dict get_coordinates closes over
    gpc,              \* position: "idle", "apply", "geocode", "backoff", "done", "aborted"
    row,              \* index of the row progress_apply is at
    coords,           \* values get_coordinates has returned to progress_apply
    geoRuns,          \* number of runs started so far
    geocodeCalls,     \* history: calls of geolocator.geocode per key, counted up to MaxCalls
    startCacheFile,   \* history: cacheFile when the current run started
    startCoordsFile,  \* history: coordsFile when the current run started
    geoOutcome        \* history: how the latest call of get_coordinates went on:
                      \* "none", "cached", "pending", "answer", "timeout", "error"

wvars == <<input, steps, outFile, wpc, processed_cities, data, i, all_results,
           runs, startFile, lookups, failAt, prevStartFile, prevData, prevFailAt,
           inputColumns, writes, slept, saved, firstFile>>

gvars == <<cacheFile, coordsFile, df, cache, gpc, row, coords, geoRuns,
           geocodeCalls, startCacheFile, startCoordsFile, geoOutcome>>

vars == <<wvars, gvars>>

\* ---- bounds ----
MaxItems == 3     \* longest input CSV
MaxSteps == 2     \* longest date range, in time steps
MaxRuns == 2      \* runs of the pipeline in one behaviour
MaxGeoRows == 2   \* longest city list the encyclopedia table gives
MaxGeoRuns == 2   \* runs of the geocoding pipeline in one behaviour
MaxCalls == 2     \* the call counter stops counting here

Cities == {"A", "B", "C"}
Latitudes == {1, 2}
Longitudes == {7}

\* A row of the input CSV: the columns main reads.
SourceRows == [city : Cities, latitude : Latitudes, longitude : Longitudes]

RECURSIVE SeqsUpTo(_, _)
SeqsUpTo(S, n) ==
    IF n = 0 THEN {<<>>}
    ELSE LET shorter == SeqsUpTo(S, n - 1)
         IN  shorter \cup {Append(s, x) : s \in {t \in shorter : Len(t) = n - 1}, x \in S}

\* ---- data frames and CSV files ----
Columns == <<"date", "city", "weather">>

NoFile == [exists |-> FALSE, header |-> <<>>, lines |-> <<>>]

\* DataFrame.to_csv(path, index=False): a header line and one line per row,
\* fields in column order.
ToCsv(frame) ==
    [exists |-> TRUE,
     header |-> Columns,
     lines  |-> [n \in 1..Len(frame) |->
                   <<frame[n].date, frame[n].city, frame[n].weather>>]]

\* pd.read_csv(path): one row per line, fields named by the header.
ReadCsv(file) ==
    [n \in 1..Len(file.lines) |->
        [date |-> file.lines[n][1], city |-> file.lines[n][2], weather |-> file.lines[n][3]]]

\* pd.concat(frames, ignore_index=True)
RECURSIVE Concat(_)
Concat(frames) ==
    IF frames = <<>> THEN <<>> ELSE Head(frames) \o Concat(Tail(frames))

\* set(existing_df["city"].unique())
CityColumn(frame) == {frame[n].city : n \in 1..Len(frame)}

\* The archive's answer for one row: one record per time step of the date
\* range, the city carried on every record, the values fixed by the
\* coordinates and the time step.
HourlyFrame(src, nsteps) ==
    [t \in 1..nsteps |->
        [date |-> t, city |-> src.city, weather |-> <<src.latitude, src.longitude, t>>]]

\* Mutant: the existing output is not consulted.
ProcessedCitiesNone(file) == {}

\* processed_cities as lines 65-68 build it
ProcessedCities(file) ==
    IF file.exists THEN CityColumn(ReadCsv(file)) ELSE {}

\* Mutant: the rows are not filtered.
FilterKeepAll(rows, done) == rows

\* data[~data["city"].isin(processed_cities)]: order kept
RECURSIVE FilterUnprocessed(_, _)
FilterUnprocessed(rows, done) ==
    IF rows = <<>> THEN <<>>
    ELSE IF Head(rows).city \in done
         THEN FilterUnprocessed(Tail(rows), done)
         ELSE <<Head(rows)>> \o FilterUnprocessed(Tail(rows), done)

\* Mutants of the save on error: nothing is saved; the save does not look at
\* whether anything was accumulated.
SaveOnErrorNothing(file, results) == file

SaveOnErrorUnguarded(file, results) ==
    LET new_df == Concat(results)
        final_df == IF file.exists THEN ReadCsv(file) \o new_df ELSE new_df
    IN  ToCsv(final_df)

\* Lines 125-136: the save in the except branch.
SaveOnError(file, results) ==
    IF results # <<>>
    THEN LET new_df == Concat(results)
             final_df == IF file.exists THEN ReadCsv(file) \o new_df ELSE new_df
         IN  ToCsv(final_df)
    ELSE file

\* Mutants of the save on completion: the file is replaced by the new rows;
\* the new rows are put before the existing ones.
SaveOnCompletionOverwrite(file, results) ==
    IF results # <<>> THEN ToCsv(Concat(results)) ELSE file

SaveOnCompletionNewFirst(file, results) ==
    IF results # <<>>
    THEN LET new_df == Concat(results)
             final_df == IF file.exists THEN new_df \o ReadCsv(file) ELSE new_df
         IN  ToCsv(final_df)
    ELSE file

\* Lines 140-150: the save in the else branch of the for loop.
SaveOnCompletion(file, results) ==
    IF results # <<>>
    THEN LET new_df == Concat(results)
             final_df == IF file.exists THEN ReadCsv(file) \o new_df ELSE new_df
         IN  ToCsv(final_df)
    ELSE file

\* ---- russian_cities_with_coords.py: values, cache and files ----
GeoCities == {"A", "B"}
Regions == {"R"}

\* A row of russian_cities.csv: the columns the geocoding reads.
CityRows == [city : GeoCities, region : Regions]

\* Line 104: key = f"{city}, {region}"
CacheKey(city, region) == <<city, ", ", region>>

None == "None"

\* What geolocator.geocode can answer: a location, or nothing (None).
Locations == {[found |-> TRUE, latitude |-> "55.75", longitude |-> "37.61"]}

NoLocation == [found |-> FALSE, latitude |-> None, longitude |-> None]

\* Lines 109-112: the value made of the geocoder's answer
CoordsOf(location) ==
    IF location.found
    THEN [py |-> "tuple", lat |-> location.latitude, lon |-> location.longitude]
    ELSE [py |-> "tuple", lat |-> None, lon |-> None]

NoCacheFile == [exists |-> FALSE, object |-> <<>>]

\* Lines 128-129: json.dump(cache): an object of 2-element arrays, None as null
JsonDump(c) ==
    [exists |-> TRUE, object |-> [k \in DOMAIN c |-> <<c[k].lat, c[k].lon>>]]

\* Lines 97-101: json.load, or the empty dict without a file; an array is
\* loaded as a list.
JsonLoad(file) ==
    IF file.exists
    THEN [k \in DOMAIN file.object |->
             [py |-> "list", lat |-> file.object[k][1], lon |-> file.object[k][2]]]
    ELSE <<>>

\* Mutant: the cache is not consulted.
InCacheNever(c, key) == FALSE

\* Line 105: key in cache
InCache(c, key) == key \in DOMAIN c

\* Mutant: the null pair is not stored.
StoredSkipNone(c, key, value) ==
    IF value.lat = None THEN c
    ELSE [k \in DOMAIN c \cup {key} |-> IF k = key THEN value ELSE c[k]]

\* Line 116: cache[key] = coords
Stored(c, key, value) ==
    [k \in DOMAIN c \cup {key} |-> IF k = key THEN value ELSE c[k]]

\* Line 127: the table written to cities_with_coordinates.csv
CoordsTable(rows, values) ==
    [exists |-> TRUE,
     lines |-> [n \in 1..Len(rows) |->
                  <<rows[n].city, rows[n].region, values[n].lat, values[n].lon>>]]

NoCoordsFile == [exists |-> FALSE, lines |-> <<>>]

CurKey == CacheKey(df[row].city, df[row].region)

Counted(n) == IF n < MaxCalls THEN n + 1 ELSE MaxCalls

\* The geocoding pipeline before its first run: no cache file, no output.
GeoIdle ==
    /\ cacheFile = NoCacheFile
    /\ coordsFile = NoCoordsFile
    /\ df = <<>>
    /\ cache = <<>>
    /\ gpc = "idle"
    /\ row = 0
    /\ coords = <<>>
    /\ geoRuns = 0
    /\ geocodeCalls = <<>>
    /\ startCacheFile = NoCacheFile
    /\ startCoordsFile = NoCoordsFile
    /\ geoOutcome = "none"

\* ---- fetch_hourly_weather.py: the run ----
\* Columns main reads from the input CSV (lines 72, 83, 84).
RequiredColumns == {"city", "latitude", "longitude"}

\* Headers of the input CSV: complete, or with one required column missing.
InputHeaders == {RequiredColumns} \cup {RequiredColumns \ {c} : c \in RequiredColumns}

\* An output file without a city column.
NoCityFile ==
    [exists |-> TRUE,
     header |-> <<"date", "town", "weather">>,
     lines  |-> <<<<1, "A", <<1, 7, 1>>>>>>]

\* Output files an earlier invocation (over some other input) can have left.
PriorFiles == {NoFile} \cup {ToCsv(HourlyFrame(r, 1)) : r \in SourceRows}

\* existing_df["city"] (line 68) and data["city"] (line 72) find their column.
CityColumnsPresent(file, header) ==
    /\ file.exists => \E n \in 1..Len(file.header) : file.header[n] = "city"
    /\ "city" \in header

\* row["latitude"], row["longitude"] (lines 83-84) find their columns.
CoordinateColumnsPresent(header) == {"latitude", "longitude"} \subseteq header

\* Mutant: the except branch does not leave the loop.
AfterExceptNoBreak == "loop"

\* Line 137: break
AfterExcept == "done"

InitWeather ==
    /\ input \in SeqsUpTo(SourceRows, MaxItems)
    /\ inputColumns \in InputHeaders
    /\ steps \in 1..MaxSteps
    /\ outFile \in PriorFiles \cup {NoCityFile}
    /\ firstFile = outFile
    /\ wpc = "idle"
    /\ processed_cities = {}
    /\ data = <<>>
    /\ i = 0
    /\ all_results = <<>>
    /\ runs = 0
    /\ startFile = NoFile
    /\ lookups = <<>>
    /\ failAt = 0
    /\ prevStartFile = NoFile
    /\ prevData = <<>>
    /\ prevFailAt = 0
    /\ writes = 0
    /\ slept = {}
    /\ saved = <<>>
    /\ GeoIdle

\* What every start of main does to the history of the run.
NewRun(n) ==
    /\ runs' = n
    /\ startFile' = outFile
    /\ lookups' = <<>>
    /\ failAt' = 0
    /\ writes' = 0
    /\ slept' = {}
    /\ prevStartFile' = startFile
    /\ prevData' = data
    /\ prevFailAt' = failAt
    /\ UNCHANGED <<input, inputColumns, steps, outFile, saved, firstFile>>
    /\ UNCHANGED gvars

\* Lines 64-79: build processed_cities, read and filter the input, empty
\* accumulator; the for loop is about to take its first row.
Begin(n) ==
    /\ wpc \in {"idle", "done", "crashed"}
    /\ CityColumnsPresent(outFile, inputColumns)
    /\ processed_cities' = ProcessedCities(outFile)
    /\ data' = FilterUnprocessed(input, ProcessedCities(outFile))
    /\ all_results' = <<>>
    /\ i' = 1
    /\ wpc' = "loop"
    /\ NewRun(n)

StartRun ==
    /\ runs < MaxRuns
    /\ Begin(runs + 1)

\* Lines 66-72 raising KeyError: the output file has no city column
\* (line 68), or the input has none (line 72); nothing catches it.
StartRunKeyError ==
    /\ wpc \in {"idle", "done", "crashed"}
    /\ runs < MaxRuns
    /\ ~CityColumnsPresent(outFile, inputColumns)
    /\ processed_cities' = {}
    /\ data' = <<>>
    /\ all_results' = <<>>
    /\ i' = 0
    /\ wpc' = "crashed"
    /\ NewRun(runs + 1)

\* Lines 82-84 raising KeyError: the row has no latitude or no longitude;
\* params is built before the try statement, so nothing catches it.
ParamsKeyError ==
    /\ wpc = "loop"
    /\ i <= Len(data)
    /\ ~CoordinateColumnsPresent(inputColumns)
    /\ wpc' = "crashed"
    /\ UNCHANGED <<input, inputColumns, steps, outFile, processed_cities, data, i,
                   all_results, runs, startFile, lookups, failAt, prevStartFile,
                   prevData, prevFailAt, writes, slept, saved, firstFile>>
    /\ UNCHANGED gvars

\* Lines 81-121: the lookup for data[i] succeeds; its frame is appended, the
\* loop sleeps (line 121, whatever the row) and moves to the next row.
LookupOk ==
    /\ wpc = "loop"
    /\ i <= Len(data)
    /\ CoordinateColumnsPresent(inputColumns)
    /\ lookups' = Append(lookups, data[i])
    /\ all_results' = Append(all_results, HourlyFrame(data[i], steps))
    /\ slept' = slept \cup {i}
    /\ i' = i + 1
    /\ UNCHANGED <<input, inputColumns, steps, outFile, wpc, processed_cities, data,
                   runs, startFile, failAt, prevStartFile, prevData, prevFailAt,
                   writes, saved, firstFile>>
    /\ UNCHANGED gvars

\* Lines 94-95 and 123-137: the lookup for data[i] raises; what was
\* accumulated is saved and the loop is left by break.
LookupFail ==
    /\ wpc = "loop"
    /\ i <= Len(data)
    /\ CoordinateColumnsPresent(inputColumns)
    /\ lookups' = Append(lookups, data[i])
    /\ failAt' = i
    /\ outFile' = SaveOnError(outFile, all_results)
    /\ writes' = IF all_results # <<>> THEN writes + 1 ELSE writes
    /\ saved' = IF outFile' # outFile
                THEN saved \o SubSeq(data, 1, Len(all_results)) ELSE saved
    /\ wpc' = AfterExcept
    /\ i' = IF AfterExcept = "done" THEN i ELSE i + 1
    /\ UNCHANGED <<input, inputColumns, steps, processed_cities, data, all_results,
                   runs, startFile, prevStartFile, prevData, prevFailAt, slept,
                   firstFile>>
    /\ UNCHANGED gvars

\* Lines 139-150: the for loop ran out of rows; its else branch saves.
LoopElse ==
    /\ wpc = "loop"
    /\ i > Len(data)
    /\ outFile' = SaveOnCompletion(outFile, all_results)
    /\ writes' = IF all_results # <<>> THEN writes + 1 ELSE writes
    /\ saved' = IF outFile' # outFile
                THEN saved \o SubSeq(data, 1, Len(all_results)) ELSE saved
    /\ wpc' = "done"
    /\ UNCHANGED <<input, inputColumns, steps, processed_cities, data, i, all_results,
                   runs, startFile, lookups, failAt, prevStartFile, prevData,
                   prevFailAt, slept, firstFile>>
    /\ UNCHANGED gvars

NextWeather ==
    \/ StartRun
    \/ StartRunKeyError
    \/ ParamsKeyError
    \/ LookupOk
    \/ LookupFail
    \/ LoopElse

SpecWeather == InitWeather /\ [][NextWeather]_vars

\* ---- fetch_hourly_weather.py: main invoked again and again ----
\* Source rows of the repeated runs: two city names, one of them at two
\* places.
LiveRows == {r \in SourceRows : r.city = "A" \/ (r.city = "B" /\ r.latitude = 1)}

\* A well-formed input and either no output file or one of an earlier
\* invocation.
InitWeatherLive ==
    /\ input \in SeqsUpTo(LiveRows, MaxItems)
    /\ inputColumns = RequiredColumns
    /\ steps \in 1..MaxSteps
    /\ outFile \in {NoFile} \cup {ToCsv(HourlyFrame(r, 1)) : r \in {q \in LiveRows : q.latitude = 1}}
    /\ firstFile = outFile
    /\ wpc = "idle"
    /\ processed_cities = {}
    /\ data = <<>>
    /\ i = 0
    /\ all_results = <<>>
    /\ runs = 0
    /\ startFile = NoFile
    /\ lookups = <<>>
    /\ failAt = 0
    /\ prevStartFile = NoFile
    /\ prevData = <<>>
    /\ prevFailAt = 0
    /\ writes = 0
    /\ slept = {}
    /\ saved = <<>>
    /\ GeoIdle

\* The script is started once more, any number of times; invocations past
\* MaxRuns are not told apart by the run counter.
Rerun == Begin(IF runs < MaxRuns THEN runs + 1 ELSE MaxRuns)

NextWeatherLive ==
    \/ Rerun
    \/ LookupOk
    \/ LookupFail
    \/ LoopElse

\* The script keeps being run and a run keeps going (weak fairness of the
\* steps); the archive does not fail for ever: a lookup asked again and
\* again succeeds at last (strong fairness of LookupOk).
SpecWeatherLive ==
    /\ InitWeatherLive
    /\ [][NextWeatherLive]_vars
    /\ WF_vars(NextWeatherLive)
    /\ SF_vars(LookupOk)

\* ---- russian_cities_with_coords.py: the run ----
WeatherIdle ==
    /\ input = <<>>
    /\ steps = 1
    /\ outFile = NoFile
    /\ wpc = "idle"
    /\ processed_cities = {}
    /\ data = <<>>
    /\ i = 0
    /\ all_results = <<>>
    /\ runs = 0
    /\ startFile = NoFile
    /\ lookups = <<>>
    /\ failAt = 0
    /\ prevStartFile = NoFile
    /\ prevData = <<>>
    /\ prevFailAt = 0
    /\ inputColumns = RequiredColumns
    /\ writes = 0
    /\ slept = {}
    /\ saved = <<>>
    /\ firstFile = NoFile

InitGeo == GeoIdle /\ WeatherIdle

\* Lines 49-101 and 119-120: the city list is fetched and written, the cache
\* is loaded, progress_apply is about to take the first row.
StartGeoRun ==
    /\ gpc \in {"idle", "done", "aborted"}
    /\ geoRuns < MaxGeoRuns
    /\ geoRuns' = geoRuns + 1
    /\ \E rows \in SeqsUpTo(CityRows, MaxGeoRows) \ {<<>>} : df' = rows
    /\ cache' = JsonLoad(cacheFile)
    /\ startCacheFile' = cacheFile
    /\ startCoordsFile' = coordsFile
    /\ geoOutcome' = "none"
    /\ row' = 1
    /\ coords' = <<>>
    /\ gpc' = "apply"
    /\ UNCHANGED <<cacheFile, coordsFile, geocodeCalls>>
    /\ UNCHANGED wvars

\* Lines 103-108: get_coordinates is entered for the current row: it returns
\* the cached value, or calls the geocoder.
EnterGetCoordinates ==
    IF InCache(cache, CurKey)
    THEN /\ coords' = Append(coords, cache[CurKey])
         /\ row' = row + 1
         /\ gpc' = "apply"
         /\ geoOutcome' = "cached"
         /\ UNCHANGED geocodeCalls
    ELSE /\ gpc' = "geocode"
         /\ geoOutcome' = "pending"
         /\ geocodeCalls' =
                [k \in DOMAIN geocodeCalls \cup {CurKey} |->
                    IF k = CurKey
                    THEN Counted(IF k \in DOMAIN geocodeCalls THEN geocodeCalls[k] ELSE 0)
                    ELSE geocodeCalls[k]]
         /\ UNCHANGED <<coords, row>>

\* Lines 122-125: progress_apply calls get_coordinates for the next row.
ApplyRow ==
    /\ gpc = "apply"
    /\ row <= Len(df)
    /\ EnterGetCoordinates
    /\ UNCHANGED <<cacheFile, coordsFile, df, cache, geoRuns, startCacheFile,
                   startCoordsFile>>
    /\ UNCHANGED wvars

\* Lines 108-112 and 116-117: the geocoder answers with a location or with
\* nothing; the value is stored and returned.
GeocodeAnswers ==
    /\ gpc = "geocode"
    /\ \E location \in Locations \cup {NoLocation} :
          /\ cache' = Stored(cache, CurKey, CoordsOf(location))
          /\ coords' = Append(coords, CoordsOf(location))
    /\ row' = row + 1
    /\ gpc' = "apply"
    /\ geoOutcome' = "answer"
    /\ UNCHANGED <<cacheFile, coordsFile, df, geoRuns, geocodeCalls, startCacheFile,
                   startCoordsFile>>
    /\ UNCHANGED wvars

\* Lines 113-114: the geocoder times out; get_coordinates sleeps.
GeocodeTimedOut ==
    /\ gpc = "geocode"
    /\ gpc' = "backoff"
    /\ geoOutcome' = "timeout"
    /\ UNCHANGED <<cacheFile, coordsFile, df, cache, row, coords, geoRuns, geocodeCalls,
                   startCacheFile, startCoordsFile>>
    /\ UNCHANGED wvars

\* Line 115: after the sleep get_coordinates calls itself with the same
\* arguments; no attempt is counted anywhere.
RetryGetCoordinates ==
    /\ gpc = "backoff"
    /\ EnterGetCoordinates
    /\ UNCHANGED <<cacheFile, coordsFile, df, cache, geoRuns, startCacheFile,
                   startCoordsFile>>
    /\ UNCHANGED wvars

\* Mutant: every exception of the geocoder is handled like a timeout.
AfterGeocodeErrorRetry == "backoff"

\* Line 113: the except clause names GeocoderTimedOut only; any other
\* exception leaves get_coordinates and the function that called it.
AfterGeocodeError == "aborted"

\* Mutant: the cache is written on the way out (try/finally).
CacheFileAfterErrorSaved(file, c) == JsonDump(c)

\* Lines 127-129 are not reached when an exception leaves the function.
CacheFileAfterError(file, c) == file

\* Line 108 raising anything but GeocoderTimedOut: nothing catches it, the
\* function is left before lines 127-129.
GeocodeRaises ==
    /\ gpc = "geocode"
    /\ gpc' = AfterGeocodeError
    /\ geoOutcome' = "error"
    /\ cacheFile' = CacheFileAfterError(cacheFile, cache)
    /\ UNCHANGED <<coordsFile, df, cache, row, coords, geoRuns, geocodeCalls,
                   startCacheFile, startCoordsFile>>
    /\ UNCHANGED wvars

\* Lines 125-129: every row has its value; the table and the cache are written.
SaveGeo ==
    /\ gpc = "apply"
    /\ row > Len(df)
    /\ coordsFile' = CoordsTable(df, coords)
    /\ cacheFile' = JsonDump(cache)
    /\ gpc' = "done"
    /\ UNCHANGED <<df, cache, row, coords, geoRuns, geocodeCalls, startCacheFile,
                   startCoordsFile, geoOutcome>>
    /\ UNCHANGED wvars

NextGeo ==
    \/ StartGeoRun
    \/ ApplyRow
    \/ GeocodeAnswers
    \/ GeocodeTimedOut
    \/ RetryGetCoordinates
    \/ GeocodeRaises
    \/ SaveGeo

SpecGeo == InitGeo /\ [][NextGeo]_vars

\* The process keeps running: a step that can be taken is taken.
SpecGeoFair == SpecGeo /\ WF_vars(NextGeo)

\* ---- helpers of the properties ----
IsPrefix(s, t) == Len(s) <= Len(t) /\ SubSeq(t, 1, Len(s)) = s

Range(s) == {s[n] : n \in 1..Len(s)}

DistinctCities(rows) ==
    \A m, n \in 1..Len(rows) : m # n => rows[m].city # rows[n].city

\* The lines of the output file that one source row's series makes.
SeriesLines(src) == ToCsv(HourlyFrame(src, steps)).lines

RECURSIVE SeriesLinesOf(_)
SeriesLinesOf(rows) ==
    IF rows = <<>> THEN <<>> ELSE SeriesLines(Head(rows)) \o SeriesLinesOf(Tail(rows))

\* City names in the city column of the output file when the run started.
StartCities == {startFile.lines[n][2] : n \in 1..Len(startFile.lines)}

\* Rows whose lookup returned in this run: all rows looked up, but the one
\* that raised.
Fetched ==
    IF failAt = 0 THEN lookups ELSE SubSeq(lookups, 1, Len(lookups) - 1)

\* Lines 64-148 with every lookup succeeding: the table one uninterrupted run
\* leaves, started on `file` with source list `rows`.
OneRunTable(file, rows) ==
    LET todo == FilterUnprocessed(rows, ProcessedCities(file))
    IN  SaveOnCompletion(file, [n \in 1..Len(todo) |-> HourlyFrame(todo[n], steps)])

InRun == wpc \in {"loop", "done"}

\* C1: at every point of a run, however it ends, the lines the output file
\* held when the run started are still there, in place, at the head of the
\* file: no pre-existing row is dropped or replaced.
C1_ExistingRowsKept ==
    InRun =>
        /\ startFile.exists => outFile.exists
        /\ IsPrefix(startFile.lines, outFile.lines)

\* C1 witness: a run over a file that had rows ended by a caught lookup
\* exception after it had fetched something, and the file grew.
C1_Witness ==
    /\ wpc = "done"
    /\ failAt > 1
    /\ Len(startFile.lines) > 0
    /\ Len(outFile.lines) > Len(startFile.lines)

\* C2: no lookup is issued in a run for a source row whose city was in the
\* city column of the output file when the run started.
C2_NoLookupOfProcessedCity ==
    \A n \in 1..Len(lookups) : lookups[n].city \notin StartCities

\* C2 witness: the source list holds a city already in the output file, and
\* the run has looked up other rows.
C2_Witness ==
    /\ InRun
    /\ \E n \in 1..Len(input) : input[n].city \in StartCities
    /\ Len(lookups) >= 2

\* C3: when a run has ended, the rows looked up are the source rows whose
\* city was not in the output file, in source order (all of them when no
\* lookup raised), and the output file is the lines it had at the start, in
\* their order, followed by the series of the rows fetched, in source order,
\* nothing removed and nothing reordered.
C3_Resumability ==
    wpc = "done" =>
        LET new == SelectSeq(input, LAMBDA r : r.city \notin StartCities)
        IN  /\ IsPrefix(lookups, new)
            /\ failAt = 0 => lookups = new
            /\ outFile.lines = startFile.lines \o SeriesLinesOf(Fetched)
            /\ outFile.exists = (startFile.exists \/ Fetched # <<>>)

\* C3 witness: the file held rows of a city of the source list, the run
\* fetched two new rows and completed.
C3_Witness ==
    /\ wpc = "done"
    /\ failAt = 0
    /\ Len(startFile.lines) > 0
    /\ \E n \in 1..Len(input) : input[n].city \in StartCities
    /\ Len(lookups) >= 2

\* C4: for a source list of distinct cities, when the lookup of a row raises,
\* the rows before it in the work list were looked up and their series are in
\* the output, the rows after it were not looked up and the output has no
\* line of their cities; the following run works on the failed row and the
\* rows after it only, in that order.
C4_PartialFailure ==
    DistinctCities(input) =>
        /\ (wpc = "done" /\ failAt > 0) =>
              /\ lookups = SubSeq(data, 1, failAt)
              /\ \A n \in 1..(failAt - 1) :
                     Range(SeriesLines(data[n])) \subseteq Range(outFile.lines)
              /\ \A n \in (failAt + 1)..Len(data) :
                     \A m \in 1..Len(outFile.lines) : outFile.lines[m][2] # data[n].city
        /\ (InRun /\ runs >= 2 /\ prevFailAt > 0) =>
              /\ data = SubSeq(prevData, prevFailAt, Len(prevData))
              /\ IsPrefix(lookups, data)

\* C4 witness: the run before worked on three rows and failed at the second;
\* the present run has looked up the second and the third.
C4_Witness ==
    /\ DistinctCities(input)
    /\ runs >= 2
    /\ Len(prevData) = 3
    /\ prevFailAt = 2
    /\ lookups = SubSeq(prevData, 2, 3)
    /\ Range(SeriesLines(prevData[1])) \subseteq Range(outFile.lines)

\* C5: when a run stopped at a failed row and the next run completed, the
\* output file equals the table one uninterrupted run leaves from the same
\* starting file and the same source list, for every source list, also one
\* in which two rows have the same city name.
C5_SplitRunsSameTable ==
    (wpc = "done" /\ runs >= 2 /\ prevFailAt > 0 /\ failAt = 0) =>
        outFile = OneRunTable(prevStartFile, input)

\* C6: a run started with every city of the source list already in the
\* output file issues no lookup and leaves the file as it was.
C6_Idempotence ==
    (InRun /\ \A n \in 1..Len(input) : input[n].city \in StartCities) =>
        /\ lookups = <<>>
        /\ outFile = startFile

\* C6 witness: the second of two successive runs has ended; the first one
\* fetched the whole source list.
C6_Witness ==
    /\ wpc = "done"
    /\ runs >= 2
    /\ Len(input) >= 2
    /\ prevData = input
    /\ prevFailAt = 0
    /\ \A n \in 1..Len(input) : input[n].city \in StartCities

\* C7: when the first row a run attempts fails, the output file is as it was
\* when the run started: not created when absent, not modified when present.
C7_EmptyAccumulator ==
    (wpc = "done" /\ failAt = 1) => outFile = startFile

\* C7 witness: the first lookup of a run raised and there is no output file.
C7_Witness ==
    /\ wpc = "done"
    /\ failAt = 1
    /\ ~startFile.exists
    /\ ~outFile.exists

\* Keys the cache held when the run started: those of the cache file.
StartKeys == DOMAIN startCacheFile.object

\* A step in which get_coordinates calls the geocoder.
GeocodeCalled == gpc' = "geocode" /\ gpc # "geocode"

\* get_coordinates is about to be entered for the current row.
AtEntry == gpc \in {"apply", "backoff"} /\ row <= Len(df)

\* C8 as stated: whatever happens in the runs (timeouts, a run aborted by a
\* geocoder error), the geocoder is called at most once for a key.
C8_AtMostOneCallPerKey ==
    \A k \in DOMAIN geocodeCalls : geocodeCalls[k] <= 1

\* C8 amended: the geocoder is called for a key only when the cache has no
\* entry for it, neither loaded from the cache file at the start of the run
\* nor stored earlier in the run; a call of get_coordinates for a key that
\* has an entry returns the cached value and calls nothing.
C8_NoCallForCachedKey ==
    [][/\ GeocodeCalled =>
             /\ CurKey \notin DOMAIN cache
             /\ CurKey \notin DOMAIN cacheFile.object
       /\ (AtEntry /\ CurKey \in DOMAIN cache) =>
             /\ geocodeCalls' = geocodeCalls
             /\ gpc' = "apply"
             /\ coords' = Append(coords, cache[CurKey])
      ]_vars

\* C8 witness: the second run has returned, from the cache its first run
\* saved, the value of a key the geocoder was called for once.
C8_Witness ==
    /\ geoRuns = 2
    /\ gpc = "done"
    /\ CacheKey(df[1].city, df[1].region) \in StartKeys
    /\ geocodeCalls[CacheKey(df[1].city, df[1].region)] = 1
    /\ <<coords[1].lat, coords[1].lon>> =
           startCacheFile.object[CacheKey(df[1].city, df[1].region)]

\* C9: a call of the geocoder that times out is retried a bounded number of
\* times only: get_coordinates always comes to an end, by a value or by a
\* failure, also when every attempt times out.
C9_RetryTerminates ==
    (gpc = "geocode") ~> (gpc \notin {"geocode", "backoff"})

\* C10: an answer of the geocoder, the null pair too, is stored under the
\* key and is the value returned; within a run no entry of the cache is
\* changed or removed, and a later call for the key returns it; a run starts
\* with every entry of the cache file; no entry of the cache file is ever
\* changed or removed, and the save step writes the entries the file had
\* plus those added in the run.
C10_CacheStore ==
    [][/\ (gpc = "geocode" /\ gpc' = "apply") =>
             /\ CurKey \in DOMAIN cache'
             /\ cache'[CurKey] = coords'[Len(coords')]
       /\ geoRuns' = geoRuns =>
             \A k \in DOMAIN cache : k \in DOMAIN cache' /\ cache'[k] = cache[k]
       /\ (AtEntry /\ CurKey \in DOMAIN cache) =>
             coords' = Append(coords, cache[CurKey])
       /\ geoRuns' # geoRuns =>
             \A k \in DOMAIN cacheFile.object :
                 /\ k \in DOMAIN cache'
                 /\ <<cache'[k].lat, cache'[k].lon>> = cacheFile.object[k]
       /\ \A k \in DOMAIN cacheFile.object :
             /\ k \in DOMAIN cacheFile'.object
             /\ cacheFile'.object[k] = cacheFile.object[k]
       /\ (gpc' = "done" /\ gpc # "done") =>
             /\ cacheFile'.exists
             /\ DOMAIN cacheFile'.object = DOMAIN cacheFile.object \cup DOMAIN cache
             /\ \A k \in DOMAIN cache :
                    cacheFile'.object[k] = <<cache[k].lat, cache[k].lon>>
      ]_vars

\* C10 witness: the second run found in the cache file a null pair the first
\* run had stored, returned it, added an entry of its own and saved both.
C10_Witness ==
    /\ geoRuns = 2
    /\ gpc = "done"
    /\ \E n \in 1..Len(df) :
          LET k == CacheKey(df[n].city, df[n].region)
          IN  /\ k \in StartKeys
              /\ startCacheFile.object[k] = <<None, None>>
              /\ coords[n].lat = None
    /\ StartKeys # DOMAIN cacheFile.object
    /\ StartKeys \subseteq DOMAIN cacheFile.object

\* ---- properties of the later claims ----
\* The run was started on a malformed file: an output file without a city
\* column, or an input without one of the required columns.
Malformed ==
    \/ startFile.exists /\ \A n \in 1..Len(startFile.header) : startFile.header[n] # "city"
    \/ inputColumns # RequiredColumns

\* C11: in a run, final_df.to_csv is called at most once, and exactly once
\* when the run has ended having fetched something; the write happens on
\* the step that ends the loop (the last row done, or a lookup failure
\* caught), it appends the accumulated rows to the existing ones, and no
\* lookup is issued after it.
C11_FlushOnce ==
    [][/\ writes' <= 1
       /\ (wpc' = "done" /\ all_results' # <<>>) => writes' = 1
       /\ (writes' # writes /\ runs' = runs) =>
             /\ wpc = "loop" /\ wpc' = "done"
             /\ outFile'.lines = outFile.lines \o ToCsv(Concat(all_results)).lines
       /\ (writes >= 1 /\ runs' = runs) => lookups' = lookups
      ]_vars

\* C11 witness: a run over an existing file fetched two rows, a third lookup
\* failed, and the file was written once.
C11_Witness ==
    /\ wpc = "done"
    /\ failAt = 3
    /\ startFile.exists
    /\ writes = 1
    /\ Len(outFile.lines) > Len(startFile.lines)

\* C12: time.sleep runs after a successful lookup only when another row is
\* left to process: never after the lookup of the last row of the work list.
C12_NoSleepAfterLastItem ==
    \A n \in slept : n < Len(data)

\* C13: a run started on a malformed file (output without a city column,
\* input without city, latitude or longitude) aborts with an error: it
\* issues no lookup, leaves the output file as it was and does not end
\* normally.
C13_MalformedIsFatal ==
    (runs >= 1 /\ Malformed) =>
        /\ lookups = <<>>
        /\ outFile = startFile
        /\ wpc # "done"

\* C14: the rows looked up in a run are the first rows of the filtered list,
\* in its order, each once; when a lookup has failed the run has ended and
\* the failed row is the last one looked up.
C14_InOrderUntilFailure ==
    /\ IsPrefix(lookups, data)
    /\ wpc = "loop" => Len(lookups) = i - 1
    /\ failAt > 0 => (wpc = "done" /\ Len(lookups) = failAt)

\* C14 witness: two rows were looked up in order, the second failed, a third
\* row was left alone.
C14_Witness ==
    /\ wpc = "done"
    /\ failAt = 2
    /\ Len(data) = 3
    /\ lookups = SubSeq(data, 1, 2)

\* C15: the work list of a run is the source rows whose city is not in the
\* city column of the output file, in source order; without an output file
\* it is the whole source list.
C15_ProcessedSetFilter ==
    InRun =>
        /\ data = SelectSeq(input, LAMBDA r : r.city \notin StartCities)
        /\ ~startFile.exists => data = input

\* C15 witness: the output file held a city of the source list; two rows of
\* other cities are the work list.
C15_Witness ==
    /\ InRun
    /\ startFile.exists
    /\ Len(data) = 2
    /\ Len(input) = 3
    /\ input[2].city \in StartCities

\* Number of places of a sequence that hold x.
Count(seq, x) == Cardinality({n \in 1..Len(seq) : seq[n] = x})

\* C18: over the runs, the lines added to the output file are whole series
\* of source rows, one after the other, and no source row has its series
\* added more often than the row occurs in the source list.
C18_SeriesSavedOnce ==
    /\ outFile.lines = firstFile.lines \o SeriesLinesOf(saved)
    /\ \A n \in 1..Len(saved) : Count(saved, saved[n]) <= Count(input, saved[n])

\* C18 witness: after a run that stopped at a failure and a run that
\* completed, three series are in the file.
C18_Witness ==
    /\ wpc = "done"
    /\ runs >= 2
    /\ prevFailAt > 1
    /\ failAt = 0
    /\ Len(saved) = 3

\* C16: when the geocoder raises an error that is no timeout, the run is
\* left at once: the request is not repeated, the cache gets no entry for
\* the key, and nothing more happens in that run.
C16_ErrorNotRetried ==
    [][/\ (geoOutcome' = "error" /\ geoOutcome # "error") =>
             /\ gpc' = "aborted"
             /\ cache' = cache
             /\ CurKey \notin DOMAIN cache'
             /\ geocodeCalls' = geocodeCalls
       /\ geoOutcome = "error" => geoRuns' # geoRuns
      ]_vars

\* C16 witness: the first row got its value, the geocoder raised for the
\* second, and the run was left.
C16_Witness ==
    /\ gpc = "aborted"
    /\ geoOutcome = "error"
    /\ row = 2
    /\ DOMAIN cache # {}
    /\ CurKey \notin DOMAIN cache

\* C17: when a run has saved, the coordinates file holds every line it held
\* before the run, whatever the old and the new city list are.
C17_CoordsFileKeepsRows ==
    gpc = "done" =>
        \A n \in 1..Len(startCoordsFile.lines) :
            \E m \in 1..Len(coordsFile.lines) :
                coordsFile.lines[m] = startCoordsFile.lines[n]

\* C19: when a run was left by a geocoder error, the cache file and the
\* coordinates file are as they were when the run started; the entries the
\* run had computed are in the dict only.
C19_AbortWritesNothing ==
    gpc = "aborted" =>
        /\ cacheFile = startCacheFile
        /\ coordsFile = startCoordsFile
        /\ \A k \in DOMAIN cache \ StartKeys : k \notin DOMAIN cacheFile.object

\* C19 witness: a run computed an entry for its first row and was left by
\* an error at its second row.
C19_Witness ==
    /\ gpc = "aborted"
    /\ row = 2
    /\ DOMAIN cache # StartKeys

\* Every city name of the source list is in the city column of the file.
AllCitiesInFile ==
    \A n \in 1..Len(input) :
        \E m \in 1..Len(outFile.lines) : outFile.lines[m][2] = input[n].city

\* The run that failed is over and row r is one of those behind the failed one.
SkippedByFailure(r) ==
    /\ wpc = "done"
    /\ failAt > 0
    /\ \E n \in (failAt + 1)..Len(data) : data[n] = r

\* The latest lookup issued is the one for row r.
AttemptedLast(r) == lookups # <<>> /\ lookups[Len(lookups)] = r

====
